---- MODULE Spec2Model ----
(***************************************************************************)
(* Multi-database toolbox: configuration resolution (config_parser.py)     *)
(* and the lazy connector registry (main.py).                              *)
(*                                                                         *)
(* Strings are sequences of tokens.  The tokens "$", "{" and "}" are the   *)
(* characters load_config inspects; every other token is a run of          *)
(* characters that contains none of them.                                  *)
(***************************************************************************)
EXTENDS Integers, Sequences, FiniteSets, TLC

VARIABLES
    doc,              \* config.yaml as yaml.safe_load returns it
    env,              \* os.environ, restricted to the names the documents use
    drivers,          \* connector type -> state of its driver package
    reachable,        \* db_id -> the server behind it accepts connections
    connectors,       \* main.connectors: db_id -> handle (0: no entry)
    db_configs_cache, \* main.db_configs_cache
    objects,          \* every connector object constructed so far
    pc,               \* per caller: position inside get_or_create_connector
    arg,              \* per caller: the db_id argument of its call
    local,            \* per caller: local variables of its call
    result,           \* per caller: outcome of its last completed call
    calls,            \* number of calls begun
    tool,             \* per caller: the tool function of its call
    loads,            \* direct load_config calls so far, in order: environment and outcome
    out               \* outcome of the last direct load_config / validate_db_config

vars == <<doc, env, drivers, reachable, connectors, db_configs_cache, objects,
          pc, arg, local, result, calls, tool, loads, out>>

----------------------------------------------------------------------------
(* Bounds *)

MaxDefs == 2      \* longest databases list in a document
NumCallers == 2   \* concurrent callers of the tool surface
MaxCalls == 3     \* calls begun in one behaviour

----------------------------------------------------------------------------
(* YAML values *)

Str(t) == [kind |-> "str", text |-> t]
Num(t) == [kind |-> "int", text |-> t]
Null == [kind |-> "null", text |-> <<>>]

Lit(w) == Str(<<w>>)
Placeholder(name) == Str(<<"$", "{">> \o name \o <<"}">>)

Field(k, v) == [key |-> k, value |-> v]

\* `k in config`
Has(config, k) == \E i \in 1..Len(config) : config[i].key = k

\* `config[k]`
Get(config, k) == config[CHOOSE i \in 1..Len(config) : config[i].key = k].value

\* `config.get(k, default)`
GetOr(config, k, default) == IF Has(config, k) THEN Get(config, k) ELSE default

----------------------------------------------------------------------------
(* Errors and outcomes *)

NoText == <<>>
NoError == [kind |-> "none", id |-> Null, field |-> "", type |-> Null, vars |-> <<>>]

\* ConfigError("Database configuration missing 'id' field")
MissingId == [NoError EXCEPT !.kind = "MissingId"]
\* ConfigError(f"Database '{config['id']}' missing 'type' field")
MissingType(id) == [NoError EXCEPT !.kind = "MissingType", !.id = id]
\* ConfigError(f"... database '{db_id}' missing field: {field}")
MissingField(id, type, f) ==
    [NoError EXCEPT !.kind = "MissingField", !.id = id, !.type = type, !.field = f]
\* ConfigError(f"Unknown database type '{db_type}'")
UnknownType(type) == [NoError EXCEPT !.kind = "UnknownType", !.type = type]
\* ConfigError("Missing required environment variables:\n  - ...")
MissingEnvironment(list) == [NoError EXCEPT !.kind = "MissingEnvironment", !.vars = list]
\* ConfigError(f"Error reading config file: {e}")
ReadError == [NoError EXCEPT !.kind = "ReadError"]
\* ConfigError(f"Invalid YAML in configuration file: {e}")
InvalidYaml == [NoError EXCEPT !.kind = "InvalidYaml"]
\* AttributeError of `config.get(...)` or `db_config.get(...)` on a value
\* that is not a mapping
AttributeError == [NoError EXCEPT !.kind = "AttributeError"]
\* ValueError(f"Database '{db_id}' not found in configuration")
NotFound(db_id) == [NoError EXCEPT !.kind = "NotFound", !.id = Lit(db_id)]
\* the driver's error, re-raised by `except Exception: raise`
InitError(db_id) == [NoError EXCEPT !.kind = "InitError", !.id = Lit(db_id)]
\* ValueError(f"Unknown database type: {db_type}")
UnknownVariant(type) == [NoError EXCEPT !.kind = "UnknownVariant", !.type = type]

\* RuntimeError(f"Missing dependency for {db_type}. ...")
MissingDependency(type) == [NoError EXCEPT !.kind = "MissingDependency", !.type = type]

Ok(v) == [ok |-> TRUE, value |-> v, err |-> NoError]
Raise(e) == [ok |-> FALSE, value |-> <<>>, err |-> e]

----------------------------------------------------------------------------
(* config_parser.validate_db_config *)

PostgresRequired == <<"host", "port", "user", "password", "dbname">>
MongoRequired == <<"uri", "database">>
RedisRequired == <<"host", "port", "db">>

\* `field not in config or config[field] is None`
Absent(config, f) == ~Has(config, f) \/ Get(config, f) = Null

\* the first field of `required` the loop raises on, 0 when it raises on none
FirstAbsent(config, required) ==
    IF \E i \in 1..Len(required) : Absent(config, required[i])
    THEN CHOOSE i \in 1..Len(required) :
            /\ Absent(config, required[i])
            /\ \A j \in 1..(i - 1) : ~Absent(config, required[j])
    ELSE 0

CheckRequired(config, required) ==
    LET i == FirstAbsent(config, required) IN
    IF i = 0 THEN Ok(<<>>)
    ELSE Raise(MissingField(Get(config, "id"), Get(config, "type"), required[i]))

\* validate_db_config with the type check moved before the id check
validate_db_config_TypeFirst(config) ==
    IF ~Has(config, "type") THEN Raise(MissingType(GetOr(config, "id", Null)))
    ELSE IF ~Has(config, "id") THEN Raise(MissingId)
    ELSE LET db_type == Get(config, "type") IN
         IF db_type = Lit("postgres") THEN CheckRequired(config, PostgresRequired)
         ELSE IF db_type = Lit("mongodb") THEN CheckRequired(config, MongoRequired)
         ELSE IF db_type = Lit("redis") THEN CheckRequired(config, RedisRequired)
         ELSE Raise(UnknownType(db_type))

validate_db_config(config) ==
    IF ~Has(config, "id") THEN Raise(MissingId)
    ELSE IF ~Has(config, "type") THEN Raise(MissingType(Get(config, "id")))
    ELSE LET db_type == Get(config, "type") IN
         IF db_type = Lit("postgres") THEN CheckRequired(config, PostgresRequired)
         ELSE IF db_type = Lit("mongodb") THEN CheckRequired(config, MongoRequired)
         ELSE IF db_type = Lit("redis") THEN CheckRequired(config, RedisRequired)
         ELSE Raise(UnknownType(db_type))

----------------------------------------------------------------------------
(* config_parser.load_config *)

\* `isinstance(value, str) and value.startswith("${") and value.endswith("}")`
IsPlaceholder(value) ==
    /\ value.kind = "str"
    /\ Len(value.text) >= 2
    /\ value.text[1] = "$"
    /\ value.text[2] = "{"
    /\ value.text[Len(value.text)] = "}"

\* `value[2:-1]`
EnvVarOf(value) == SubSeq(value.text, 3, Len(value.text) - 1)

\* `os.environ.get(env_var)`: found is FALSE for None
EnvironGet(e, name) ==
    IF name \in DOMAIN e /\ e[name].set
    THEN [found |-> TRUE, text |-> e[name].text]
    ELSE [found |-> FALSE, text |-> NoText]

Unresolved(value, e) == IsPlaceholder(value) /\ ~EnvironGet(e, EnvVarOf(value)).found

\* ResolveDef scanning the substituted value a second time
ResolveDef_Rescan(db_config, e) ==
    [i \in 1..Len(db_config) |->
        LET value == db_config[i].value
            once == IF IsPlaceholder(value) /\ EnvironGet(e, EnvVarOf(value)).found
                    THEN Str(EnvironGet(e, EnvVarOf(value)).text)
                    ELSE value
        IN IF IsPlaceholder(once) /\ EnvironGet(e, EnvVarOf(once)).found
           THEN Field(db_config[i].key, Str(EnvironGet(e, EnvVarOf(once)).text))
           ELSE Field(db_config[i].key, once)]

\* `db_config[key] = resolved_value`, for every key of one definition
ResolveDef(db_config, e) ==
    [i \in 1..Len(db_config) |->
        LET value == db_config[i].value IN
        IF IsPlaceholder(value) /\ EnvironGet(e, EnvVarOf(value)).found
        THEN Field(db_config[i].key, Str(EnvironGet(e, EnvVarOf(value)).text))
        ELSE db_config[i]]

\* f"{env_var} (required by {db_id}.{key})"
MissingVar(env_var, db_id, key) == [env_var |-> env_var, db_id |-> db_id, key |-> key]

\* the entries one definition appends to missing_vars, in key order
RECURSIVE MissingOfFrom(_, _, _)
MissingOfFrom(db_config, e, i) ==
    IF i > Len(db_config) THEN <<>>
    ELSE LET db_id == GetOr(db_config, "id", Lit("unknown"))
             value == db_config[i].value
         IN (IF Unresolved(value, e)
             THEN <<MissingVar(EnvVarOf(value), db_id, db_config[i].key)>>
             ELSE <<>>) \o MissingOfFrom(db_config, e, i + 1)

MissingOf(db_config, e) == MissingOfFrom(db_config, e, 1)

\* the resolution loop stopping at the first definition with a missing variable
MissingVarsFrom_FailFast(databases, e, n) ==
    IF \E m \in n..Len(databases) : MissingOf(databases[m], e) # <<>>
    THEN MissingOf(databases[CHOOSE m \in n..Len(databases) :
                        /\ MissingOf(databases[m], e) # <<>>
                        /\ \A k \in n..(m - 1) : MissingOf(databases[k], e) = <<>>], e)
    ELSE <<>>

\* missing_vars after the resolution loop over `databases`
RECURSIVE MissingVarsFrom(_, _, _)
MissingVarsFrom(databases, e, n) ==
    IF n > Len(databases) THEN <<>>
    ELSE MissingOf(databases[n], e) \o MissingVarsFrom(databases, e, n + 1)

\* the validation loop: the first definition validate_db_config raises on
RECURSIVE ValidateFrom(_, _)
ValidateFrom(databases, n) ==
    IF n > Len(databases) THEN Ok(databases)
    ELSE IF validate_db_config(databases[n]).ok THEN ValidateFrom(databases, n + 1)
    ELSE Raise(validate_db_config(databases[n]).err)

\* load_config treating a document without databases as an error
load_config_EmptyRejected(d, e) ==
    IF d.state = "missing" THEN Raise(ReadError)
    ELSE IF d.state = "malformed" THEN Raise(InvalidYaml)
    ELSE IF d.state \in {"empty", "not_mapping", "entry_not_mapping"}
    THEN Raise(AttributeError)
    ELSE LET databases == d.databases IN
         IF databases = <<>> THEN Raise(ReadError)
         ELSE LET missing_vars == MissingVarsFrom(databases, e, 1)
                  resolved == [n \in 1..Len(databases) |-> ResolveDef(databases[n], e)]
              IN IF missing_vars # <<>> THEN Raise(MissingEnvironment(missing_vars))
                 ELSE ValidateFrom(resolved, 1)

\* `databases = config.get("databases", [])`, the two loops, the raise on
\* missing variables and the validation
load_config(d, e) ==
    IF d.state = "missing" THEN Raise(ReadError)
    ELSE IF d.state = "malformed" THEN Raise(InvalidYaml)
    ELSE IF d.state \in {"empty", "not_mapping", "entry_not_mapping"}
    THEN Raise(AttributeError)
    ELSE LET databases == d.databases IN
         IF databases = <<>> THEN Ok(<<>>)
         ELSE LET missing_vars == MissingVarsFrom(databases, e, 1)
                  resolved == [n \in 1..Len(databases) |-> ResolveDef(databases[n], e)]
              IN IF missing_vars # <<>> THEN Raise(MissingEnvironment(missing_vars))
                 ELSE ValidateFrom(resolved, 1)

----------------------------------------------------------------------------
(* main.load_db_configs *)

\* `if not db_configs_cache: db_configs_cache = load_config(config_path)`
\* followed by `return db_configs_cache`
load_db_configs(cache, d, e) ==
    IF cache # <<>> THEN [cache |-> cache, res |-> Ok(cache)]
    ELSE LET r == load_config(d, e) IN
         IF r.ok THEN [cache |-> r.value, res |-> Ok(r.value)]
         ELSE [cache |-> cache, res |-> r]

----------------------------------------------------------------------------
(* Inputs: definitions, documents, environments *)

PG_PASS == <<"PG_PASS">>
MONGO_URI == <<"MONGO_URI">>
EnvNames == {PG_PASS, MONGO_URI}

Unset == [set |-> FALSE, text |-> NoText]
SetTo(t) == [set |-> TRUE, text |-> t]
\* a variable is unset or set; PG_PASS is set to text that itself has the
\* form of a placeholder
EnvValues(name) ==
    IF name = PG_PASS THEN {Unset, SetTo(<<"$", "{", "MONGO_URI", "}">>)}
    ELSE {Unset, SetTo(<<"s3cret">>)}
Envs == {e \in [EnvNames -> {Unset, SetTo(<<"s3cret">>),
                             SetTo(<<"$", "{", "MONGO_URI", "}">>)}] :
            \A name \in EnvNames : e[name] \in EnvValues(name)}

Without(config, k) == SelectSeq(config, LAMBDA f : f.key # k)
With(config, k, v) ==
    [i \in 1..Len(config) |-> IF config[i].key = k THEN Field(k, v) ELSE config[i]]
Keys(config) == {config[i].key : i \in 1..Len(config)}

Postgres(id) ==
    <<Field("id", Lit(id)), Field("type", Lit("postgres")),
      Field("host", Lit("pg.local")), Field("port", Num(<<"5432">>)),
      Field("user", Lit("app")), Field("password", Lit("pw")),
      Field("dbname", Lit("main"))>>
Mongo(id) ==
    <<Field("id", Lit(id)), Field("type", Lit("mongodb")),
      Field("uri", Lit("mongodb://m.local")), Field("database", Lit("docs"))>>
Redis(id) ==
    <<Field("id", Lit(id)), Field("type", Lit("redis")),
      Field("host", Lit("r.local")), Field("port", Num(<<"6379">>)),
      Field("db", Num(<<"0">>))>>
Hana(id) ==
    <<Field("id", Lit(id)), Field("type", Lit("hana")),
      Field("host", Lit("h.local")), Field("port", Num(<<"30015">>)),
      Field("user", Lit("app")), Field("password", Lit("pw"))>>
HanaDb(id) == Hana(id) \o <<Field("dbname", Lit("HXE"))>>
Mysql(id) == <<Field("id", Lit(id)), Field("type", Lit("mysql"))>>

\* a definition, the same with one key dropped, the same with one value null
Variants(config) ==
    {config} \cup {Without(config, k) : k \in Keys(config)}
             \cup {With(config, k, Null) : k \in Keys(config)}

\* inputs of validate_db_config
Definitions ==
    UNION {Variants(b) : b \in {Postgres("a"), Mongo("b"), Redis("c"),
                                Hana("h"), HanaDb("h")}}
    \cup {Mysql("m"), <<>>, <<Field("host", Lit("x"))>>,
          <<Field("id", Lit("a"))>>, <<Field("type", Lit("redis"))>>,
          Without(Without(Postgres("a"), "host"), "dbname"),
          Without(Without(Redis("c"), "port"), "db")}

\* definitions the documents are built from
LoadDefinitions ==
    {Postgres("a"),
     With(Postgres("a"), "password", Placeholder(PG_PASS)),
     With(With(Postgres("a"), "user", Placeholder(MONGO_URI)),
          "password", Placeholder(PG_PASS)),
     Mongo("b"),
     With(Mongo("b"), "uri", Placeholder(MONGO_URI)),
     Without(With(Mongo("b"), "uri", Placeholder(MONGO_URI)), "id"),
     Redis("c"),
     Without(Redis("c"), "db"),
     Hana("h"),
     With(Mongo("b"), "uri", Placeholder(<<"NOT_IN_ENV">>))}

SeqUpTo(S, n) == UNION {[1..k -> S] : k \in 0..n}

OkDoc(databases) == [state |-> "ok", databases |-> databases]
MissingDoc == [state |-> "missing", databases |-> <<>>]
MalformedDoc == [state |-> "malformed", databases |-> <<>>]
\* an empty file: yaml.safe_load returns None
EmptyDoc == [state |-> "empty", databases |-> <<>>]
\* a document whose top level is a list or a scalar
NotMappingDoc == [state |-> "not_mapping", databases |-> <<>>]
\* a databases list whose entry after `before` is a scalar or a list
BadEntryDoc(before) == [state |-> "entry_not_mapping", databases |-> before]

Documents ==
    {OkDoc(s) : s \in SeqUpTo(LoadDefinitions, MaxDefs)}
    \cup {MissingDoc, MalformedDoc, EmptyDoc, NotMappingDoc}
    \cup {BadEntryDoc(s) : s \in SeqUpTo(LoadDefinitions, MaxDefs - 1)}

\* documents the registry is run against
RegistryDocs ==
    {OkDoc(<<Postgres("a"), Mongo("b")>>),
     OkDoc(<<With(Postgres("a"), "password", Placeholder(PG_PASS)), Mongo("b")>>),
     OkDoc(<<Mongo("b"), Without(Redis("a"), "db")>>),
     OkDoc(<<Redis("a"), Postgres("a")>>),
     OkDoc(<<>>)}

\* db_id arguments of the tool calls; "zz" is configured by no document
DbIds == {"a", "b", "zz"}

\* the database servers that exist
Servers == {"a", "b"}

Callers == 1..NumCallers

----------------------------------------------------------------------------
(* State *)

NoLocal == [config |-> <<>>, handle |-> 0, loaded |-> FALSE, constructed |-> FALSE]
NoResult == [done |-> FALSE, ok |-> FALSE, handle |-> 0, err |-> NoError,
             loaded |-> FALSE, constructed |-> FALSE, invoked |-> "none"]
NoOut == [op |-> "none", input |-> <<>>, res |-> Ok(<<>>)]

\* the connector classes main.py dispatches to
Variants3 == {Lit("postgres"), Lit("mongodb"), Lit("redis")}

\* a connector as its constructor leaves it: the pool, connection or client
\* attribute holds a live driver object, nothing is borrowed
NewConnector(db_id, db_type) ==
    [db_id |-> db_id, type |-> db_type, attached |-> TRUE, closed |-> FALSE,
     alive |-> TRUE, borrowed |-> 0]

Registry0 ==
    /\ connectors = [id \in DbIds |-> 0]
    /\ db_configs_cache = <<>>
    /\ objects = <<>>
    /\ pc = [t \in Callers |-> "idle"]
    /\ arg = [t \in Callers |-> "a"]
    /\ local = [t \in Callers |-> NoLocal]
    /\ result = [t \in Callers |-> NoResult]
    /\ calls = 0
    /\ tool = [t \in Callers |-> "query_postgres"]
    /\ loads = <<>>
    /\ out = NoOut

\* the environment variables the document refers to
UsedNames(d) ==
    {name \in EnvNames :
        \E n \in 1..Len(d.databases) : \E i \in 1..Len(d.databases[n]) :
            d.databases[n][i].value = Placeholder(name)}

\* the servers the document configures
UsedServers(d) ==
    {id \in Servers :
        \E n \in 1..Len(d.databases) : GetOr(d.databases[n], "id", Null) = Lit(id)}

\* main.py importing every connector module at the top of the file
Init_EagerImports ==
    /\ doc \in RegistryDocs
    /\ env \in Envs
    /\ \A name \in EnvNames \ UsedNames(doc) : env[name] = Unset
    /\ reachable \in [Servers -> BOOLEAN]
    /\ \A id \in Servers \ UsedServers(doc) : reachable[id]
    /\ drivers = [type \in Variants3 |-> "imported"]
    /\ Registry0

\* the connector types the document configures
UsedTypes(d) ==
    {type \in Variants3 :
        \E n \in 1..Len(d.databases) : GetOr(d.databases[n], "type", Null) = type}

\* variables, servers and drivers the document does not refer to are never
\* looked at: they stay unset, up and installed
Init ==
    /\ doc \in RegistryDocs
    /\ env \in Envs
    /\ \A name \in EnvNames \ UsedNames(doc) : env[name] = Unset
    /\ reachable \in [Servers -> BOOLEAN]
    /\ \A id \in Servers \ UsedServers(doc) : reachable[id]
    /\ drivers \in [Variants3 -> {"absent", "installed"}]
    /\ \A type \in Variants3 \ UsedTypes(doc) : drivers[type] = "installed"
    /\ Registry0

----------------------------------------------------------------------------
(* main.get_or_create_connector, one step per access to shared state *)

\* the tool functions: query_postgres, the three mongodb tools, the three
\* redis tools
Tools == {"query_postgres", "find_mongodb", "insert_mongodb",
          "list_collections_mongodb", "get_redis", "set_redis", "delete_redis"}

\* the tools a caller picks from: one per connector type, the other tools
\* of a type start with the same `get_or_create_connector(db_id)`
CalledTools == {"query_postgres", "find_mongodb", "get_redis"}

\* the tool of CalledTools that targets connectors of type db_type
ToolFor(db_type) ==
    CASE db_type = Lit("mongodb") -> "find_mongodb"
      [] db_type = Lit("redis") -> "get_redis"
      [] OTHER -> "query_postgres"

\* the tool that targets the type the document gives db_id
MatchingTool(d, db_id) ==
    LET defs == {n \in 1..Len(d.databases) :
                    GetOr(d.databases[n], "id", Null) = Lit(db_id)}
    IN IF defs = {} THEN "query_postgres"
       ELSE ToolFor(GetOr(d.databases[CHOOSE n \in defs : \A m \in defs : n <= m],
                          "type", Null))

\* the method the tool calls on the connector it got
ToolMethod(tl) ==
    CASE tl = "query_postgres" -> "execute_query"
      [] tl = "find_mongodb" -> "find"
      [] tl = "insert_mongodb" -> "insert_one"
      [] tl = "list_collections_mongodb" -> "list_collections"
      [] tl = "get_redis" -> "get"
      [] tl = "set_redis" -> "set"
      [] tl = "delete_redis" -> "delete"

\* the operations a connector class defines
Methods(db_type) ==
    CASE db_type = Lit("postgres") -> {"execute_query"}
      [] db_type = Lit("mongodb") -> {"find", "insert_one", "list_collections"}
      [] db_type = Lit("redis") -> {"get", "set", "delete"}
      [] db_type = Lit("hana") -> {"execute_query", "list_schemas", "list_tables"}

\* `connector.<method>(...)` in the tool: the method it invokes, or the
\* AttributeError of a connector class that does not define it
Invoke(tl, c) ==
    IF ToolMethod(tl) \in Methods(c.type) THEN ToolMethod(tl) ELSE "AttributeError"

\* get_or_create_connector returns `h` and the tool calls its method on it
Returns(t, h, l, tl) ==
    /\ result' = [result EXCEPT ![t] =
                    [done |-> TRUE, ok |-> TRUE, handle |-> h, err |-> NoError,
                     loaded |-> l.loaded, constructed |-> l.constructed,
                     invoked |-> Invoke(tl, objects[h])]]
    /\ local' = [local EXCEPT ![t] = NoLocal]
    /\ pc' = [pc EXCEPT ![t] = "idle"]

\* the call raises `e`
Raises(t, e, l) ==
    /\ result' = [result EXCEPT ![t] =
                    [done |-> TRUE, ok |-> FALSE, handle |-> 0, err |-> e,
                     loaded |-> l.loaded, constructed |-> l.constructed,
                     invoked |-> "none"]]
    /\ local' = [local EXCEPT ![t] = NoLocal]
    /\ pc' = [pc EXCEPT ![t] = "idle"]

\* get_or_create_connector without the lookup in `connectors`
Begin_NoLookup(t, tl, db_id) ==
    /\ pc[t] = "idle"
    /\ calls < MaxCalls
    /\ calls' = calls + 1
    /\ arg' = [arg EXCEPT ![t] = db_id]
    /\ tool' = [tool EXCEPT ![t] = tl]
    /\ pc' = [pc EXCEPT ![t] = "load_db_configs"]
    /\ local' = [local EXCEPT ![t] = NoLocal]
    /\ result' = [result EXCEPT ![t] = NoResult]
    /\ UNCHANGED <<doc, loads, env, drivers, reachable, connectors,
                   db_configs_cache, objects, out>>

\* `if db_id in connectors: return connectors[db_id]`
Begin(t, tl, db_id) ==
    /\ pc[t] = "idle"
    /\ calls < MaxCalls
    /\ calls' = calls + 1
    /\ arg' = [arg EXCEPT ![t] = db_id]
    /\ tool' = [tool EXCEPT ![t] = tl]
    /\ IF connectors[db_id] # 0
       THEN Returns(t, connectors[db_id], NoLocal, tl)
       ELSE /\ pc' = [pc EXCEPT ![t] = "load_db_configs"]
            /\ local' = [local EXCEPT ![t] = NoLocal]
            /\ result' = [result EXCEPT ![t] = NoResult]
    /\ UNCHANGED <<doc, loads, env, drivers, reachable, connectors,
                   db_configs_cache, objects, out>>

\* a lookup that falls back on the first definition
FindConfig_Any(configs, db_id) ==
    IF Len(configs) > 0 THEN 1 ELSE 0

\* `next((c for c in configs if c["id"] == db_id), None)`: 0 for None
FindConfig(configs, db_id) ==
    IF \E n \in 1..Len(configs) : Get(configs[n], "id") = Lit(db_id)
    THEN CHOOSE n \in 1..Len(configs) :
            /\ Get(configs[n], "id") = Lit(db_id)
            /\ \A m \in 1..(n - 1) : Get(configs[m], "id") # Lit(db_id)
    ELSE 0

\* `config = next(...)`, `if not config: raise ValueError(...)`
Lookup(t, configs, didLoad) ==
    LET n == FindConfig(configs, arg[t]) IN
    IF n = 0
    THEN Raises(t, NotFound(arg[t]), [local[t] EXCEPT !.loaded = didLoad])
    ELSE /\ local' = [local EXCEPT ![t].config = configs[n], ![t].loaded = didLoad]
         /\ pc' = [pc EXCEPT ![t] = "construct"]
         /\ UNCHANGED result

\* load_db_configs: `if not db_configs_cache:` finds the cache filled
LoadCached(t) ==
    /\ pc[t] = "load_db_configs"
    /\ db_configs_cache # <<>>
    /\ Lookup(t, db_configs_cache, FALSE)
    /\ UNCHANGED <<doc, tool, loads, env, drivers, reachable, connectors, db_configs_cache, objects,
                   arg, calls, out>>

\* load_db_configs: `if not db_configs_cache:` finds the cache empty
LoadNeeded(t) ==
    /\ pc[t] = "load_db_configs"
    /\ db_configs_cache = <<>>
    /\ pc' = [pc EXCEPT ![t] = "load_config"]
    /\ UNCHANGED <<doc, tool, loads, env, drivers, reachable, connectors, db_configs_cache, objects,
                   arg, local, result, calls, out>>

\* load_db_configs keeping the definitions of a load that failed
LoadConfig_MemoizeFailure(t) ==
    /\ pc[t] = "load_config"
    /\ LET r == load_config(doc, env) IN
       IF r.ok
       THEN /\ db_configs_cache' = r.value
            /\ Lookup(t, r.value, TRUE)
       ELSE /\ Raises(t, r.err, [local[t] EXCEPT !.loaded = TRUE])
            /\ db_configs_cache' = doc.databases
    /\ UNCHANGED <<doc, tool, loads, env, drivers, reachable, connectors, objects,
                   arg, calls, out>>

\* load_db_configs: `db_configs_cache = load_config(config_path)`
LoadConfig(t) ==
    /\ pc[t] = "load_config"
    /\ LET r == load_config(doc, env) IN
       IF r.ok
       THEN /\ db_configs_cache' = r.value
            /\ Lookup(t, r.value, TRUE)
       ELSE /\ Raises(t, r.err, [local[t] EXCEPT !.loaded = TRUE])
            /\ UNCHANGED db_configs_cache
    /\ UNCHANGED <<doc, tool, loads, env, drivers, reachable, connectors, objects, arg, calls, out>>

\* get_or_create_connector caching a connector whose construction failed
Construct_CacheFailure(t) ==
    /\ pc[t] = "construct"
    /\ LET db_type == Get(local[t].config, "type") IN
       IF db_type \notin Variants3
       THEN /\ Raises(t, UnknownVariant(db_type), local[t])
            /\ UNCHANGED <<objects, connectors, drivers>>
       ELSE IF drivers[db_type] = "absent"
       THEN /\ Raises(t, MissingDependency(db_type), local[t])
            /\ UNCHANGED <<objects, connectors, drivers>>
       ELSE IF arg[t] \in Servers /\ reachable[arg[t]]
       THEN /\ drivers' = [drivers EXCEPT ![db_type] = "imported"]
            /\ objects' = Append(objects, NewConnector(arg[t], db_type))
            /\ local' = [local EXCEPT ![t].handle = Len(objects) + 1,
                                      ![t].constructed = TRUE]
            /\ pc' = [pc EXCEPT ![t] = "store"]
            /\ UNCHANGED <<result, connectors>>
       ELSE /\ drivers' = [drivers EXCEPT ![db_type] = "imported"]
            /\ Raises(t, InitError(arg[t]), local[t])
            /\ objects' = Append(objects,
                            [NewConnector(arg[t], db_type) EXCEPT !.closed = TRUE])
            /\ connectors' = [connectors EXCEPT ![arg[t]] = Len(objects) + 1]
    /\ UNCHANGED <<doc, tool, loads, env, reachable, db_configs_cache, arg, calls, out>>

\* get_or_create_connector importing every connector module before it
\* constructs one
Construct_ImportAll(t) ==
    /\ pc[t] = "construct"
    /\ LET db_type == Get(local[t].config, "type") IN
       IF db_type \notin Variants3
       THEN /\ Raises(t, UnknownVariant(db_type), local[t])
            /\ UNCHANGED <<objects, drivers>>
       ELSE IF \E type \in Variants3 : drivers[type] = "absent"
       THEN /\ Raises(t, MissingDependency(db_type), local[t])
            /\ UNCHANGED <<objects, drivers>>
       ELSE IF arg[t] \in Servers /\ reachable[arg[t]]
       THEN /\ drivers' = [type \in Variants3 |-> "imported"]
            /\ objects' = Append(objects, NewConnector(arg[t], db_type))
            /\ local' = [local EXCEPT ![t].handle = Len(objects) + 1,
                                      ![t].constructed = TRUE]
            /\ pc' = [pc EXCEPT ![t] = "store"]
            /\ UNCHANGED result
       ELSE /\ drivers' = [type \in Variants3 |-> "imported"]
            /\ Raises(t, InitError(arg[t]), local[t])
            /\ UNCHANGED objects
    /\ UNCHANGED <<doc, tool, loads, env, reachable, connectors, db_configs_cache,
                   arg, calls, out>>

\* `from connectors.postgres import PostgresConnector` and the like, then
\* `PostgresConnector(config)`: the import loads the driver, the constructor
\* connects
Construct(t) ==
    /\ pc[t] = "construct"
    /\ LET db_type == Get(local[t].config, "type") IN
       IF db_type \notin Variants3
       THEN /\ Raises(t, UnknownVariant(db_type), local[t])
            /\ UNCHANGED <<objects, drivers>>
       ELSE IF drivers[db_type] = "absent"
       THEN /\ Raises(t, MissingDependency(db_type), local[t])
            /\ UNCHANGED <<objects, drivers>>
       ELSE IF arg[t] \in Servers /\ reachable[arg[t]]
       THEN /\ drivers' = [drivers EXCEPT ![db_type] = "imported"]
            /\ objects' = Append(objects, NewConnector(arg[t], db_type))
            /\ local' = [local EXCEPT ![t].handle = Len(objects) + 1,
                                      ![t].constructed = TRUE]
            /\ pc' = [pc EXCEPT ![t] = "store"]
            /\ UNCHANGED result
       ELSE /\ drivers' = [drivers EXCEPT ![db_type] = "imported"]
            /\ Raises(t, InitError(arg[t]), local[t])
            /\ UNCHANGED objects
    /\ UNCHANGED <<doc, tool, loads, env, reachable, connectors, db_configs_cache, arg, calls, out>>

\* `connectors[db_id] = <the new connector>`
Store(t) ==
    /\ pc[t] = "store"
    /\ connectors' = [connectors EXCEPT ![arg[t]] = local[t].handle]
    /\ pc' = [pc EXCEPT ![t] = "return"]
    /\ UNCHANGED <<doc, tool, loads, env, drivers, reachable, db_configs_cache, objects, arg, local,
                   result, calls, out>>

\* `return connectors[db_id]`
Return(t) ==
    /\ pc[t] = "return"
    /\ Returns(t, connectors[arg[t]], local[t], tool[t])
    /\ UNCHANGED <<doc, tool, loads, env, drivers, reachable, connectors, db_configs_cache, objects,
                   arg, calls, out>>

----------------------------------------------------------------------------
(* The world outside the process.  The process looks at the environment   *)
(* only inside load_config and at a server only inside a constructor, so a *)
(* change is taken when a caller is about to look.                         *)

\* a variable is exported, changed or removed
SetEnv(name, v) ==
    /\ name \in UsedNames(doc)
    /\ \E t \in Callers : pc[t] = "load_config"
    /\ env[name] # v
    /\ env' = [env EXCEPT ![name] = v]
    /\ UNCHANGED <<doc, tool, loads, drivers, reachable, connectors, db_configs_cache, objects,
                   pc, arg, local, result, calls, out>>

\* a database server goes down or comes back
SetReachable(db_id) ==
    /\ db_id \in UsedServers(doc)
    /\ \E t \in Callers : pc[t] = "construct" /\ arg[t] = db_id
    /\ reachable' = [reachable EXCEPT ![db_id] = ~reachable[db_id]]
    /\ UNCHANGED <<doc, tool, loads, env, drivers, connectors, db_configs_cache, objects,
                   pc, arg, local, result, calls, out>>

World ==
    \/ \E name \in EnvNames : \E v \in EnvValues(name) : SetEnv(name, v)
    \/ \E db_id \in Servers : SetReachable(db_id)

Step(t) ==
    \/ LoadCached(t)
    \/ LoadNeeded(t)
    \/ LoadConfig(t)
    \/ Construct(t)
    \/ Store(t)
    \/ Return(t)

\* tool calls arrive concurrently; get_or_create_connector does not see
\* which tool called it, each id is asked for through the tool of its type
Next ==
    \/ \E t \in Callers, db_id \in DbIds : Begin(t, MatchingTool(doc, db_id), db_id)
    \/ \E t \in Callers : Step(t)
    \/ World

Spec == Init /\ [][Next]_vars

\* tool calls arrive one after the other
BeginSeq(t, tl, db_id) ==
    /\ \A u \in Callers : pc[u] = "idle"
    /\ Begin(t, tl, db_id)

NextSeq ==
    \/ \E t \in Callers, db_id \in DbIds :
          BeginSeq(t, MatchingTool(doc, db_id), db_id)
    \/ \E t \in Callers : Step(t)
    \/ World

SpecSeq == Init /\ [][NextSeq]_vars

\* tool calls arrive one after the other, any tool with any id
NextTools ==
    \/ \E t \in Callers, tl \in CalledTools, db_id \in DbIds :
          BeginSeq(t, tl, db_id)
    \/ \E t \in Callers : Step(t)
    \/ World

SpecTools == Init /\ [][NextTools]_vars

----------------------------------------------------------------------------
(* The configuration functions called directly *)

InitCfg ==
    /\ doc \in Documents
    /\ env \in Envs
    /\ reachable = [id \in Servers |-> TRUE]
    /\ drivers = [type \in Variants3 |-> "installed"]
    /\ Registry0

\* `load_db_configs()`
CallLoadDbConfigs ==
    /\ LET r == load_db_configs(db_configs_cache, doc, env) IN
       /\ db_configs_cache' = r.cache
       /\ out' = [op |-> IF db_configs_cache = <<>> THEN "load_config" ELSE "cached",
                  input |-> <<>>, res |-> r.res]
    /\ UNCHANGED <<doc, tool, loads, env, drivers, reachable, connectors, objects, pc, arg, local,
                   result, calls>>

\* `load_config()` and calls around it

InitIdem ==
    /\ doc \in RegistryDocs \cup {MissingDoc, MalformedDoc, EmptyDoc}
    /\ env \in Envs
    /\ reachable = [id \in Servers |-> TRUE]
    /\ drivers = [type \in Variants3 |-> "installed"]
    /\ Registry0

\* load_config resolving in a document that is parsed once and kept
CallLoadConfig_SharedDocument ==
    /\ Len(loads) < MaxCalls
    /\ LET r == load_config(doc, env) IN
       /\ out' = [op |-> "load_config", input |-> <<>>, res |-> r]
       /\ loads' = Append(loads, [env |-> env, res |-> r])
    /\ doc' = IF doc.state = "ok"
              THEN [doc EXCEPT !.databases =
                       [n \in 1..Len(doc.databases) |-> ResolveDef(doc.databases[n], env)]]
              ELSE doc
    /\ UNCHANGED <<tool, env, drivers, reachable, connectors, db_configs_cache,
                   objects, pc, arg, local, result, calls>>

\* `load_config()`: the document is read and parsed anew by every call
CallLoadConfig ==
    /\ Len(loads) < MaxCalls
    /\ LET r == load_config(doc, env) IN
       /\ out' = [op |-> "load_config", input |-> <<>>, res |-> r]
       /\ loads' = Append(loads, [env |-> env, res |-> r])
    /\ UNCHANGED <<doc, tool, env, drivers, reachable, connectors, db_configs_cache,
                   objects, pc, arg, local, result, calls>>

\* the environment changes between two calls
ExportEnv(name, v) ==
    /\ v \in EnvValues(name)
    /\ env[name] # v
    /\ env' = [env EXCEPT ![name] = v]
    /\ UNCHANGED <<doc, tool, loads, drivers, reachable, connectors, db_configs_cache,
                   objects, pc, arg, local, result, calls, out>>

NextIdem ==
    \/ CallLoadConfig
    \/ CallLoadDbConfigs
    \/ \E name \in EnvNames : \E v \in EnvValues(name) : ExportEnv(name, v)

SpecIdem == InitIdem /\ [][NextIdem]_vars

\* `validate_db_config(config)`
CallValidate(config) ==
    /\ out' = [op |-> "validate_db_config", input |-> config,
               res |-> validate_db_config(config)]
    /\ UNCHANGED <<doc, tool, loads, env, drivers, reachable, connectors, db_configs_cache, objects,
                   pc, arg, local, result, calls>>

NextLoad == CallLoadDbConfigs

SpecLoad == InitCfg /\ [][NextLoad]_vars

NextValidate == \E config \in Definitions : CallValidate(config)

SpecValidate == Init /\ [][NextValidate]_vars

----------------------------------------------------------------------------
(* Vocabulary of the properties *)

AllIdle == \A t \in Callers : pc[t] = "idle"

\* handles of the connectors constructed for db_id
ConstructedFor(db_id) == {h \in 1..Len(objects) : objects[h].db_id = db_id}

\* caller t has completed a call for db_id that returned a handle
Succeeded(t, db_id) == result[t].done /\ result[t].ok /\ arg[t] = db_id

\* what a call returns that finds `h` cached
Hit(h) == [done |-> TRUE, ok |-> TRUE, handle |-> h, err |-> NoError,
           loaded |-> FALSE, constructed |-> FALSE, invoked |-> "none"]

\* this step is the first step of a call by t
Begins(t) ==
    /\ calls' = calls + 1
    /\ pc[t] = "idle"
    /\ pc'[t] # pc[t] \/ arg'[t] # arg[t] \/ result'[t] # result[t]

\* names a placeholder can carry
Names == EnvNames \cup {<<"NOT_IN_ENV">>}

IsSet(e, name) == name \in DOMAIN e /\ e[name].set

\* positions <<n, i>> of the fields of the document that hold ${NAME} with
\* NAME unset
UnsetFields(d, e) ==
    {f \in UNION {{<<n, i>> : i \in 1..Len(d.databases[n])} :
                     n \in 1..Len(d.databases)} :
        \E name \in Names :
            /\ d.databases[f[1]][f[2]].value = Placeholder(name)
            /\ ~IsSet(e, name)}

\* 'NAME (required by id.field)' for the field at position f; a definition
\* without id is reported as "unknown"
EntryFor(d, f) ==
    LET config == d.databases[f[1]]
        name == CHOOSE name \in Names : config[f[2]].value = Placeholder(name)
    IN MissingVar(name,
                  IF \E i \in 1..Len(config) : config[i].key = "id"
                  THEN config[CHOOSE i \in 1..Len(config) : config[i].key = "id"].value
                  ELSE Lit("unknown"),
                  config[f[2]].key)

\* the value load_config is to return for the document value v
Substituted(v, e) ==
    IF \E name \in Names : v = Placeholder(name)
    THEN Str(e[CHOOSE name \in Names : v = Placeholder(name)].text)
    ELSE v

\* the types and required fields of section 4.1
SupportedTypes == {Lit("postgres"), Lit("mongodb"), Lit("redis"), Lit("hana")}

RequiredBy(type) ==
    IF type = Lit("postgres") THEN <<"host", "port", "user", "password", "dbname">>
    ELSE IF type = Lit("mongodb") THEN <<"uri", "database">>
    ELSE IF type = Lit("redis") THEN <<"host", "port", "db">>
    ELSE <<"host", "port", "user", "password">>

\* field k is missing from config or null
Lacks(config, k) ==
    \A i \in 1..Len(config) : config[i].key = k => config[i].value = Null

\* config has a supported type and all the fields the type requires,
\* none of them an unresolved placeholder
Complete(config, e) ==
    /\ ~Lacks(config, "id")
    /\ ~Lacks(config, "type")
    /\ Get(config, "type") \in SupportedTypes
    /\ \A j \in 1..Len(RequiredBy(Get(config, "type"))) :
          ~Lacks(config, RequiredBy(Get(config, "type"))[j])
    /\ \A i \in 1..Len(config) :
          \A name \in Names : config[i].value = Placeholder(name) => IsSet(e, name)

\* the document defines db_id completely and its server is up
Usable(db_id) ==
    /\ doc.state = "ok"
    /\ \E n \in 1..Len(doc.databases) :
          GetOr(doc.databases[n], "id", Null) = Lit(db_id)
    /\ \A n \in 1..Len(doc.databases) :
          GetOr(doc.databases[n], "id", Null) = Lit(db_id)
             => Complete(doc.databases[n], env)
    /\ db_id \in Servers
    /\ reachable[db_id]

\* every definition of the document is complete and no id occurs twice
ValidConfig ==
    /\ doc.state = "ok"
    /\ \A n \in 1..Len(doc.databases) : Complete(doc.databases[n], env)
    /\ \A n, m \in 1..Len(doc.databases) :
          Get(doc.databases[n], "id") = Get(doc.databases[m], "id") => n = m

----------------------------------------------------------------------------
(* Properties *)

\* C1: concurrent first calls for one db_id construct exactly one connector
\* for it, and all of them return that one handle.
C1_OneConstruction ==
    ValidConfig => \A db_id \in DbIds :
        /\ Cardinality(ConstructedFor(db_id)) <= 1
        /\ \A t, u \in Callers :
              Succeeded(t, db_id) /\ Succeeded(u, db_id)
                 => result[t].handle = result[u].handle

\* C2: once the concurrent calls have completed, every constructed connector
\* is the handle cached under its db_id or has been closed, and every call
\* has returned the cached handle.
C2_CachedOrClosed ==
    (ValidConfig /\ AllIdle) =>
        /\ \A h \in 1..Len(objects) :
              connectors[objects[h].db_id] = h \/ objects[h].closed
        /\ \A t \in Callers :
              result[t].done /\ result[t].ok
                 => result[t].handle = connectors[arg[t]]

\* C3: a call for a db_id for which an earlier call has returned a handle
\* returns that same handle, constructs no connector and loads no
\* configuration.
C3_CachedHandleReused ==
    [][\A t, u \in Callers :
          Begins(t) /\ Succeeded(u, arg'[t])
             => /\ pc'[t] = "idle"
                /\ [result'[t] EXCEPT !.invoked = "none"] = Hit(result[u].handle)
                /\ objects' = objects
                /\ db_configs_cache' = db_configs_cache]_vars

\* a call has constructed the connector for a db_id and a second call, of
\* another caller, has returned the same handle without constructing
C3_Witness ==
    \E t, u \in Callers :
        /\ t # u
        /\ Succeeded(u, arg[t])
        /\ result[u].constructed
        /\ [result[t] EXCEPT !.invoked = "none"] = Hit(result[u].handle)

\* C4: a construction that fails raises the driver's error to the caller and
\* leaves the handle map without an entry for the db_id; a construction that
\* finds the driver installed and the server up yields a connector, whatever
\* failed before; a missing driver fails the call the same way; and a call
\* for a db_id without entry starts over instead of replaying a failure.
C4_FailureNotCached ==
    [][\A t \in Callers :
          /\ (pc[t] = "construct" /\ pc'[t] # "construct")
                => IF drivers[Get(local[t].config, "type")] = "absent"
                   THEN /\ pc'[t] = "idle"
                        /\ result'[t].done
                        /\ ~result'[t].ok
                        /\ result'[t].err =
                              MissingDependency(Get(local[t].config, "type"))
                        /\ connectors' = connectors
                        /\ connectors'[arg[t]] = 0
                        /\ objects' = objects
                   ELSE IF arg[t] \in Servers /\ reachable[arg[t]]
                   THEN /\ pc'[t] = "store"
                        /\ Len(objects') = Len(objects) + 1
                        /\ objects'[Len(objects')].db_id = arg[t]
                   ELSE /\ pc'[t] = "idle"
                        /\ result'[t].done
                        /\ ~result'[t].ok
                        /\ result'[t].err = InitError(arg[t])
                        /\ connectors' = connectors
                        /\ connectors'[arg[t]] = 0
                        /\ objects' = objects
          /\ (Begins(t) /\ connectors[arg'[t]] = 0)
                => pc'[t] = "load_db_configs"]_vars

\* a call for a db_id has failed in construction and a later call for the
\* same db_id has constructed and returned its connector
C4_Witness ==
    \E t, u \in Callers :
        /\ result[u].done
        /\ result[u].err = InitError(arg[t])
        /\ Succeeded(t, arg[t])
        /\ result[t].constructed
        /\ connectors[arg[t]] = result[t].handle

\* C5: a call for a database whose own definition is complete and whose
\* server is up returns a handle, whatever is wrong with the other
\* databases of the document.
C5_OthersStayUsable ==
    [][\A t \in Callers :
          (pc[t] # "idle" /\ pc'[t] = "idle" /\ Usable(arg[t]))
             => result'[t].ok]_vars

\* C6: when some ${NAME} of the document names an unset variable, load_config
\* raises the missing-environment error listing exactly one entry per such
\* field, returns no definitions and leaves the definition cache empty.
C6_AllMissingListed ==
    (out.op = "load_config" /\ doc.state = "ok" /\ UnsetFields(doc, env) # {}) =>
        LET list == out.res.err.vars IN
        /\ ~out.res.ok
        /\ out.res.value = <<>>
        /\ out.res.err.kind = "MissingEnvironment"
        /\ \A f \in UnsetFields(doc, env) :
              \E j \in 1..Len(list) : list[j] = EntryFor(doc, f)
        /\ \A j \in 1..Len(list) :
              Cardinality({k \in 1..Len(list) : list[k] = list[j]})
                 = Cardinality({f \in UnsetFields(doc, env) :
                                    EntryFor(doc, f) = list[j]})
        /\ db_configs_cache = <<>>

\* load_config has failed on a document with unset variables in two
\* definitions and a set variable in one of them
C6_Witness ==
    /\ out.op = "load_config"
    /\ out.res.err.kind = "MissingEnvironment"
    /\ Len(out.res.err.vars) = 2
    /\ out.res.err.vars[1].db_id # out.res.err.vars[2].db_id
    /\ \E n \in 1..Len(doc.databases) : \E i \in 1..Len(doc.databases[n]) :
          \E name \in Names :
              /\ doc.databases[n][i].value = Placeholder(name)
              /\ IsSet(env, name)

\* C7: a successful load_config returns the definitions in document order,
\* every field of the form ${NAME} holding the value of NAME as it is and
\* every other field its document value.
C7_ResolvedOnceInOrder ==
    (out.op = "load_config" /\ out.res.ok) =>
        LET loaded == out.res.value IN
        /\ Len(loaded) = Len(doc.databases)
        /\ \A n \in 1..Len(loaded) :
              /\ Len(loaded[n]) = Len(doc.databases[n])
              /\ \A i \in 1..Len(loaded[n]) :
                    /\ loaded[n][i].key = doc.databases[n][i].key
                    /\ loaded[n][i].value = Substituted(doc.databases[n][i].value, env)
        /\ db_configs_cache = loaded

\* load_config has returned two different definitions, one of them with a
\* field resolved to a value that itself has the form ${NAME}, NAME set
C7_Witness ==
    /\ out.op = "load_config"
    /\ out.res.ok
    /\ Len(out.res.value) = 2
    /\ out.res.value[1] # out.res.value[2]
    /\ \E n \in 1..2 : \E i \in 1..Len(doc.databases[n]) :
          /\ doc.databases[n][i].value = Placeholder(PG_PASS)
          /\ out.res.value[n][i].value = Placeholder(MONGO_URI)
          /\ IsSet(env, MONGO_URI)

\* C8: validate_db_config on a definition of a supported type that lacks a
\* required field raises an error naming the first such field and the id.
C8_MissingFieldNamed ==
    (/\ out.op = "validate_db_config"
     /\ ~Lacks(out.input, "id")
     /\ ~Lacks(out.input, "type")
     /\ Get(out.input, "type") \in SupportedTypes
     /\ \E j \in 1..Len(RequiredBy(Get(out.input, "type"))) :
           Lacks(out.input, RequiredBy(Get(out.input, "type"))[j]))
    => LET required == RequiredBy(Get(out.input, "type"))
           first == CHOOSE j \in 1..Len(required) :
                       /\ Lacks(out.input, required[j])
                       /\ \A k \in 1..(j - 1) : ~Lacks(out.input, required[k])
       IN /\ ~out.res.ok
          /\ out.res.err.kind = "MissingField"
          /\ out.res.err.field = required[first]
          /\ out.res.err.id = Get(out.input, "id")

\* C9: a hana definition with host, port, user and password passes
\* validate_db_config, with or without dbname.
C9_HanaAccepted ==
    (/\ out.op = "validate_db_config"
     /\ ~Lacks(out.input, "id")
     /\ ~Lacks(out.input, "type")
     /\ Get(out.input, "type") = Lit("hana")
     /\ \A k \in {"host", "port", "user", "password"} : ~Lacks(out.input, k))
    => out.res.ok

\* C10: validate_db_config raises the missing-id error on a definition
\* without id, else the missing-type error naming the id on one without
\* type, else the unsupported-type error naming the type on one whose type
\* is not supported, whatever fields the definition has or lacks.
C10_IdThenTypeThenSupport ==
    out.op = "validate_db_config" =>
        LET config == out.input
            hasId == \E i \in 1..Len(config) : config[i].key = "id"
            hasType == \E i \in 1..Len(config) : config[i].key = "type"
        IN /\ ~hasId => out.res = Raise(MissingId)
           /\ (hasId /\ ~hasType)
                 => /\ ~out.res.ok
                    /\ out.res.err.kind = "MissingType"
                    /\ out.res.err.id = Get(config, "id")
           /\ (hasId /\ hasType /\ Get(config, "type") \notin SupportedTypes)
                 => /\ ~out.res.ok
                    /\ out.res.err.kind = "UnknownType"
                    /\ out.res.err.type = Get(config, "type")

\* validate_db_config has rejected a definition that has neither id nor
\* type nor the fields of any type
C10_Witness ==
    /\ out.op = "validate_db_config"
    /\ \A i \in 1..Len(out.input) : out.input[i].key \notin {"id", "type"}
    /\ Len(out.input) = 1
    /\ out.res.err.kind = "MissingId"

----------------------------------------------------------------------------
(* Identifiers the configuration does not define *)

\* no definition of `configs` carries the id `db_id`
Undefined(configs, db_id) ==
    \A n \in 1..Len(configs) : GetOr(configs[n], "id", Null) # Lit(db_id)

\* caller t is about to read a successfully loaded configuration that does
\* not define the id it asks for
AboutToMiss(t) ==
    \/ /\ pc[t] = "load_db_configs"
       /\ db_configs_cache # <<>>
       /\ Undefined(db_configs_cache, arg[t])
    \/ /\ pc[t] = "load_config"
       /\ load_config(doc, env).ok
       /\ Undefined(load_config(doc, env).value, arg[t])

\* caller t takes a step
Moves(t) == pc'[t] # pc[t] \/ result'[t] # result[t]

\* C11: when the configuration loads and no definition carries the requested
\* id, the call fails with the database-not-configured error, constructs no
\* connector and leaves the handle map as it was.
C11_UnknownIdRejected ==
    [][\A t \in Callers :
         /\ (Moves(t) /\ AboutToMiss(t)) =>
               /\ result'[t].done /\ ~result'[t].ok
               /\ result'[t].err = NotFound(arg[t])
               /\ ~result'[t].constructed
         /\ (Moves(t) /\ pc[t] \in {"idle", "load_db_configs", "load_config"}) =>
               /\ connectors' = connectors
               /\ objects' = objects]_vars

\* a call for an id that a loaded, non-empty configuration does not define
\* has failed
C11_Witness ==
    \E t \in Callers :
        /\ result[t].done
        /\ result[t].err = NotFound(arg[t])
        /\ db_configs_cache # <<>>
        /\ Undefined(db_configs_cache, arg[t])
        /\ pc[t] = "idle"

----------------------------------------------------------------------------
(* A document that declares no databases *)

\* C12: a document that parses and declares zero databases loads as the
\* empty list without error, and every get_or_create_connector call then
\* fails with the database-not-configured error and constructs nothing.
C12_EmptyConfiguration ==
    (doc.state = "ok" /\ doc.databases = <<>>) =>
        /\ load_config(doc, env) = Ok(<<>>)
        /\ objects = <<>>
        /\ \A id \in DbIds : connectors[id] = 0
        /\ \A t \in Callers :
              result[t].done =>
                  /\ ~result[t].ok
                  /\ result[t].err = NotFound(arg[t])
                  /\ ~result[t].constructed

\* a call against the empty configuration has loaded it and failed
C12_Witness ==
    /\ doc.state = "ok" /\ doc.databases = <<>>
    /\ \E t \in Callers :
          /\ result[t].done /\ result[t].loaded
          /\ result[t].err = NotFound(arg[t])

----------------------------------------------------------------------------
(* Memoization of the loaded configuration *)

\* outcomes of a call that got past load_db_configs
AfterLoadKinds == {"none", "NotFound", "InitError", "UnknownVariant", "MissingDependency"}

\* some completed call invoked load_config and load_config returned
LoadReturned ==
    \E u \in Callers :
        /\ result[u].done /\ result[u].loaded
        /\ result[u].err.kind \in AfterLoadKinds

\* caller t invokes load_config in this step
InvokesLoadConfig(t) == pc[t] = "load_config" /\ pc'[t] # "load_config"

\* C13: once load_config has returned successfully, the empty list included,
\* it is never invoked again.
C13_LoadedOnce ==
    [][LoadReturned => \A t \in Callers : ~InvokesLoadConfig(t)]_vars

----------------------------------------------------------------------------
(* The connectors (connectors/postgres.py, hanadb.py, mongodb.py,         *)
(* redis.py), each called directly on one connector object.  A call is     *)
(* described by the calls it makes on the driver, in order, and by what it *)
(* returns or raises.                                                      *)

\* exception classes of the SQL drivers (DB-API)
SqlErrors == {"ProgrammingError", "OperationalError", "IntegrityError"}
\* exception classes pymongo raises, and one that is not pymongo's
MongoErrors == {"OperationFailure", "ConnectionFailure", "InvalidOperation", "TypeError"}
\* exception classes redis raises, and one that is not redis's
RedisErrors == {"ResponseError", "RedisConnectionError", "DataError", "TypeError"}

\* `except PyMongoError` catches these
PyMongoErrors == {"OperationFailure", "ConnectionFailure", "InvalidOperation"}
\* `except RedisError` catches these
RedisErrorClasses == {"ResponseError", "RedisConnectionError", "DataError"}

\* an exception as the driver raises it
DriverError(class) == [class |-> class, text |-> <<class>>]
\* `raise ValueError(f"<prefix>{e}")`, `raise ConnectionError(f"<prefix>{e}")`
Relabeled(class, prefix, e) == [class |-> class, text |-> <<prefix>> \o e.text]
NoDriverError == [class |-> "none", text |-> <<>>]

Returned(v) == [ok |-> TRUE, value |-> v, err |-> NoDriverError]
Raised(e) == [ok |-> FALSE, value |-> Null, err |-> e]

\* the list of row dictionaries a query with a description returns
Rows == [kind |-> "rows", text |-> <<>>]

DigitChars == <<"0", "1", "2", "3", "4", "5", "6", "7", "8", "9">>

\* `f"{affected}"` for an int
RECURSIVE Decimal(_)
Decimal(n) ==
    IF n < 0 THEN <<"-">> \o Decimal(0 - n)
    ELSE IF n < 10 THEN <<DigitChars[n + 1]>>
    ELSE Decimal(n \div 10) \o <<DigitChars[(n % 10) + 1]>>

\* `f"{affected} row(s) affected"`
Affected(n) == Str(Decimal(n) \o <<" row(s) affected">>)

\* the driver call of execute_query that fails, if any
SqlSteps == {"none", "connect", "cursor", "execute", "fetchall", "commit"}
\* cursor.rowcount after a command
RowCounts == {0 - 1, 0, 3, 12}

\* what the driver does during one execute_query: which call raises which
\* error, whether the command produces a description, and the row count
SqlScenarios ==
    {s \in [fail : SqlSteps, err : SqlErrors, description : BOOLEAN,
            rowcount : RowCounts] :
        /\ s.fail = "none" => s.err = "ProgrammingError"
        /\ s.fail = "fetchall" => s.description
        /\ s.fail = "commit" => ~s.description}

Try(events, conn, cursor, res) ==
    [events |-> events, conn |-> conn, cursor |-> cursor, res |-> res]

\* PostgresConnector.execute_query committing after every successful command
PostgresTry_CommitAlways(c, s) ==
    IF c.closed
    THEN Try(<<"getconn">>, FALSE, FALSE, Raised(DriverError("PoolError")))
    ELSE IF s.fail = "connect"
    THEN Try(<<"getconn">>, FALSE, FALSE, Raised(DriverError(s.err)))
    ELSE IF s.fail = "cursor"
    THEN Try(<<"getconn", "cursor">>, TRUE, FALSE, Raised(DriverError(s.err)))
    ELSE IF ~c.alive
    THEN Try(<<"getconn", "cursor", "execute", "cursor.close">>, TRUE, TRUE,
             Raised(DriverError("OperationalError")))
    ELSE IF s.fail = "execute"
    THEN Try(<<"getconn", "cursor", "execute", "cursor.close">>, TRUE, TRUE,
             Raised(DriverError(s.err)))
    ELSE IF s.description
    THEN Try(<<"getconn", "cursor", "execute", "fetchall", "commit", "cursor.close">>,
             TRUE, TRUE,
             IF s.fail = "fetchall" THEN Raised(DriverError(s.err)) ELSE Returned(Rows))
    ELSE Try(<<"getconn", "cursor", "execute", "commit", "cursor.close">>, TRUE, TRUE,
             IF s.fail = "commit" THEN Raised(DriverError(s.err))
             ELSE Returned(Affected(s.rowcount)))

\* PostgresConnector.execute_query, the body of `try:`.  A closed pool
\* raises PoolError from getconn(); a session that has died fails the
\* command with OperationalError.
PostgresTry(c, s) ==
    IF c.closed
    THEN Try(<<"getconn">>, FALSE, FALSE, Raised(DriverError("PoolError")))
    ELSE IF s.fail = "connect"
    THEN Try(<<"getconn">>, FALSE, FALSE, Raised(DriverError(s.err)))
    ELSE IF s.fail = "cursor"
    THEN Try(<<"getconn", "cursor">>, TRUE, FALSE, Raised(DriverError(s.err)))
    ELSE IF ~c.alive
    THEN Try(<<"getconn", "cursor", "execute", "cursor.close">>, TRUE, TRUE,
             Raised(DriverError("OperationalError")))
    ELSE IF s.fail = "execute"
    THEN Try(<<"getconn", "cursor", "execute", "cursor.close">>, TRUE, TRUE,
             Raised(DriverError(s.err)))
    ELSE IF s.description
    THEN Try(<<"getconn", "cursor", "execute", "fetchall", "cursor.close">>, TRUE, TRUE,
             IF s.fail = "fetchall" THEN Raised(DriverError(s.err)) ELSE Returned(Rows))
    ELSE Try(<<"getconn", "cursor", "execute", "commit", "cursor.close">>, TRUE, TRUE,
             IF s.fail = "commit" THEN Raised(DriverError(s.err))
             ELSE Returned(Affected(s.rowcount)))

\* PostgresConnector.execute_query, the three `except` clauses
PostgresExcept(try) ==
    IF try.res.ok THEN try
    ELSE LET e == try.res.err
             rollback == IF try.conn THEN <<"rollback">> ELSE <<>>
         IN IF e.class = "ProgrammingError"
            THEN [try EXCEPT !.events = @ \o rollback,
                             !.res = Raised(Relabeled("ValueError", "SQL query error: ", e))]
            ELSE IF e.class = "OperationalError"
            THEN [try EXCEPT !.res = Raised(Relabeled("ConnectionError",
                                                      "Database connection error: ", e))]
            ELSE [try EXCEPT !.events = @ \o rollback]

\* PostgresConnector.execute_query releasing the connection only when the
\* query succeeded
PostgresFinally_OnSuccess(try) ==
    IF try.conn /\ try.res.ok THEN [try EXCEPT !.events = @ \o <<"putconn">>] ELSE try

\* PostgresConnector.execute_query, `finally: if conn: release_connection(conn)`
PostgresFinally(try) ==
    IF try.conn THEN [try EXCEPT !.events = @ \o <<"putconn">>] ELSE try

\* HANAConnector.get_connection: `not self.connection or not
\* self.connection.isconnected()`
NeedsReconnect(c) == ~c.attached \/ ~c.alive

\* HANAConnector.get_connection: the driver calls it makes
HanaGetConnection(c) ==
    (IF c.attached THEN <<"isconnected">> ELSE <<>>)
        \o (IF NeedsReconnect(c) THEN <<"connect">> ELSE <<>>)

\* HANAConnector.execute_query returning the row count without committing
HanaTry_NoCommit(c, s) ==
    LET pre == HanaGetConnection(c) IN
    IF NeedsReconnect(c) /\ s.fail = "connect"
    THEN Try(pre, FALSE, FALSE, Raised(DriverError(s.err)))
    ELSE IF s.fail = "cursor"
    THEN Try(pre \o <<"cursor">>, TRUE, FALSE, Raised(DriverError(s.err)))
    ELSE IF s.fail = "execute"
    THEN Try(pre \o <<"cursor", "execute">>, TRUE, TRUE, Raised(DriverError(s.err)))
    ELSE IF s.description
    THEN Try(pre \o <<"cursor", "execute", "fetchall">>, TRUE, TRUE,
             IF s.fail = "fetchall" THEN Raised(DriverError(s.err)) ELSE Returned(Rows))
    ELSE Try(pre \o <<"cursor", "execute">>, TRUE, TRUE, Returned(Affected(s.rowcount)))

\* HANAConnector.execute_query, the body of `try:`
HanaTry(c, s) ==
    LET pre == HanaGetConnection(c) IN
    IF NeedsReconnect(c) /\ s.fail = "connect"
    THEN Try(pre, FALSE, FALSE, Raised(DriverError(s.err)))
    ELSE IF s.fail = "cursor"
    THEN Try(pre \o <<"cursor">>, TRUE, FALSE, Raised(DriverError(s.err)))
    ELSE IF s.fail = "execute"
    THEN Try(pre \o <<"cursor", "execute">>, TRUE, TRUE, Raised(DriverError(s.err)))
    ELSE IF s.description
    THEN Try(pre \o <<"cursor", "execute", "fetchall">>, TRUE, TRUE,
             IF s.fail = "fetchall" THEN Raised(DriverError(s.err)) ELSE Returned(Rows))
    ELSE Try(pre \o <<"cursor", "execute", "commit">>, TRUE, TRUE,
             IF s.fail = "commit" THEN Raised(DriverError(s.err))
             ELSE Returned(Affected(s.rowcount)))

\* HANAConnector.execute_query, `except Exception: if conn: conn.rollback(); raise`
HanaExcept(try) ==
    IF try.res.ok \/ ~try.conn THEN try
    ELSE [try EXCEPT !.events = @ \o <<"rollback">>]

\* HANAConnector.execute_query, `finally: if cursor: cursor.close()`
HanaFinally(try) ==
    IF try.cursor THEN [try EXCEPT !.events = @ \o <<"cursor.close">>] ELSE try

SqlTypes == {Lit("postgres"), Lit("hana")}

\* execute_query of connector c while the driver behaves as s
execute_query(c, s) ==
    IF c.type = Lit("postgres")
    THEN PostgresFinally(PostgresExcept(PostgresTry(c, s)))
    ELSE HanaFinally(HanaExcept(HanaTry(c, s)))

\* number of calls of `name` among the driver calls `events`
Occurrences(events, name) ==
    Cardinality({i \in 1..Len(events) : events[i] = name})

\* the connector after execute_query: HANAConnector.get_connection stores
\* the connection it re-established; the pool of a PostgresConnector has
\* lent one connection per successful getconn() and taken back one per
\* putconn()
AfterQuery(c, s) ==
    IF c.type = Lit("hana")
    THEN IF NeedsReconnect(c) /\ s.fail # "connect"
         THEN [c EXCEPT !.attached = TRUE, !.alive = TRUE, !.closed = FALSE]
         ELSE c
    ELSE LET done == execute_query(c, s) IN
         [c EXCEPT !.borrowed = @ + (IF done.conn THEN 1 ELSE 0)
                                  - Occurrences(done.events, "putconn")]

MongoOps == {"find", "insert_one", "list_collections"}
RedisOps == {"get", "set", "delete"}

\* MongoDBConnector.find, insert_one, list_collections when the driver
\* raises e: what reaches the caller
MongoSurface(op, e) ==
    IF op = "list_collections" THEN e
    ELSE IF e.class = "OperationFailure"
    THEN Relabeled("ValueError", IF op = "find" THEN "MongoDB operation error: "
                                 ELSE "MongoDB insert error: ", e)
    ELSE IF e.class \in PyMongoErrors
    THEN Relabeled("ConnectionError", "MongoDB error: ", e)
    ELSE e

\* RedisConnector.get, set, delete when the driver raises e
RedisSurface(op, e) ==
    IF e.class \in RedisErrorClasses
    THEN Relabeled("ConnectionError", "Redis error: ", e)
    ELSE e

ConnectorTypes == {Lit("postgres"), Lit("hana"), Lit("mongodb"), Lit("redis")}

\* connectors as a constructor leaves them: fully built, or, when the
\* constructor raised, without the pool, connection or client, or (mongodb,
\* redis) with a client whose ping failed
Constructed ==
    {NewConnector("a", type) : type \in ConnectorTypes}
    \cup {[NewConnector("a", type) EXCEPT !.attached = FALSE, !.alive = FALSE] :
            type \in ConnectorTypes}
    \cup {[NewConnector("a", type) EXCEPT !.alive = FALSE] :
            type \in {Lit("mongodb"), Lit("redis")}}

InitConn ==
    /\ doc = OkDoc(<<>>)
    /\ env = [name \in EnvNames |-> Unset]
    /\ reachable = [id \in Servers |-> TRUE]
    /\ connectors = [id \in DbIds |-> 0]
    /\ db_configs_cache = <<>>
    /\ \E c \in Constructed :
          /\ objects = <<c>>
          /\ drivers = [type \in Variants3 |->
                          IF type = c.type THEN "imported" ELSE "installed"]
    /\ pc = [t \in Callers |-> "idle"]
    /\ arg = [t \in Callers |-> "a"]
    /\ local = [t \in Callers |-> NoLocal]
    /\ result = [t \in Callers |-> NoResult]
    /\ calls = 0
    /\ tool = [t \in Callers |-> "query_postgres"]
    /\ loads = <<>>
    /\ out = NoOut

ConnUnchanged ==
    UNCHANGED <<doc, tool, loads, env, drivers, reachable, connectors, db_configs_cache,
                pc, arg, local, result, calls>>

\* `connector.execute_query(query, params)`
ExecuteQuery(s) ==
    LET c == objects[1] IN
    /\ c.type \in SqlTypes
    /\ c.type = Lit("postgres") => c.attached
    /\ out' = [op |-> "execute_query", input |-> [connector |-> c, driver |-> s],
               res |-> execute_query(c, s)]
    /\ objects' = <<AfterQuery(c, s)>>
    /\ ConnUnchanged

\* `connector.find(...)`, `insert_one(...)`, `list_collections()`
MongoCall(op, class) ==
    LET c == objects[1] IN
    /\ c.type = Lit("mongodb") /\ c.attached
    /\ out' = [op |-> op, input |-> [connector |-> c, driver |-> class],
               res |-> [events |-> <<op>>,
                        res |-> IF class = "none" THEN Returned(Rows)
                                ELSE Raised(MongoSurface(op, DriverError(class)))]]
    /\ UNCHANGED objects
    /\ ConnUnchanged

\* `connector.get(key)`, `set(key, value)`, `delete(key)`
RedisCall(op, class) ==
    LET c == objects[1] IN
    /\ c.type = Lit("redis") /\ c.attached
    /\ out' = [op |-> op, input |-> [connector |-> c, driver |-> class],
               res |-> [events |-> <<op>>,
                        res |-> IF class = "none" THEN Returned(Rows)
                                ELSE Raised(RedisSurface(op, DriverError(class)))]]
    /\ UNCHANGED objects
    /\ ConnUnchanged

\* the driver's close raises: a psycopg2 pool that is already closed raises
\* PoolError from closeall(); a HANA connection that is closed or dead may
\* raise; the mongodb and redis clients may be closed again
DriverCloseRaises(c) ==
    IF c.type = Lit("postgres") THEN {c.closed}
    ELSE IF c.type = Lit("hana") /\ (c.closed \/ ~c.alive) THEN BOOLEAN
    ELSE {FALSE}

\* close() of connector c when the driver's close raises or not
close(c, raises) ==
    IF ~c.attached THEN [events |-> <<>>, res |-> Returned(Null)]
    ELSE IF c.type = Lit("postgres")
    THEN [events |-> <<"closeall">>,
          res |-> IF raises THEN Raised(DriverError("PoolError")) ELSE Returned(Null)]
    ELSE [events |-> <<"close">>, res |-> Returned(Null)]

\* `connector.close()`
Close(raises) ==
    LET c == objects[1] IN
    /\ raises \in DriverCloseRaises(c)
    /\ out' = [op |-> "close", input |-> [connector |-> c, driver |-> raises],
               res |-> close(c, raises)]
    /\ objects' = <<IF c.attached
                    THEN [c EXCEPT !.closed = TRUE, !.alive = FALSE] ELSE c>>
    /\ ConnUnchanged

\* the server ends the session: restart, idle timeout, network failure
SessionDies ==
    /\ objects[1].attached /\ objects[1].alive
    /\ objects' = <<[objects[1] EXCEPT !.alive = FALSE]>>
    /\ UNCHANGED out
    /\ ConnUnchanged

NextConn ==
    \/ \E s \in SqlScenarios : ExecuteQuery(s)
    \/ \E op \in MongoOps, class \in MongoErrors \cup {"none"} : MongoCall(op, class)
    \/ \E op \in RedisOps, class \in RedisErrors \cup {"none"} : RedisCall(op, class)
    \/ \E raises \in BOOLEAN : Close(raises)
    \/ SessionDies

SpecConn == InitConn /\ [][NextConn]_vars

----------------------------------------------------------------------------
(* Vocabulary of the connector properties *)

\* the last call was execute_query
Queried == out.op = "execute_query"

\* number of times the call invoked `name` on the driver
Invoked(name) ==
    Cardinality({i \in 1..Len(out.res.events) : out.res.events[i] = name})

\* the call invoked `first` on the driver before it invoked `then`
Before(first, then) ==
    \E i, j \in 1..Len(out.res.events) :
        i < j /\ out.res.events[i] = first /\ out.res.events[j] = then

\* the connector was usable when the call began
Healthy == out.input.connector.attached /\ out.input.connector.alive
           /\ ~out.input.connector.closed

\* C14: in both SQL connectors, an execute_query that fails after it
\* obtained a connection has invoked rollback on it before the error reaches
\* the caller, and has committed nothing (commit is invoked only where commit
\* is the call that fails).
C14_FailureRollsBack ==
    (Queried /\ ~out.res.res.ok /\ out.res.conn) =>
        /\ Invoked("rollback") = 1
        /\ Invoked("commit") > 0 => out.input.driver.fail = "commit"

\* the text 'n row(s) affected' for the row counts a driver reports
RowsAffected(n) ==
    CASE n = 0 - 1 -> Str(<<"-", "1", " row(s) affected">>)
      [] n = 0 -> Str(<<"0", " row(s) affected">>)
      [] n = 3 -> Str(<<"3", " row(s) affected">>)
      [] n = 12 -> Str(<<"1", "2", " row(s) affected">>)

\* no driver call of the last execute_query raised
Executed ==
    /\ Queried
    /\ out.input.driver.fail = "none"
    /\ out.input.connector.type = Lit("postgres") => Healthy

\* C15: in both SQL connectors, a command that executes without error and
\* produces no description, with driver row count n, commits exactly once
\* before returning, never rolls back, and returns 'n row(s) affected'.
C15_WriteCommitsOnce ==
    /\ Executed => out.res.res.ok
    /\ (Queried /\ out.res.res.ok /\ ~out.input.driver.description) =>
          /\ Invoked("commit") = 1
          /\ Invoked("rollback") = 0
          /\ Before("execute", "commit")
          /\ out.res.res.value = RowsAffected(out.input.driver.rowcount)

\* a write through a HANA connector that had to reconnect first reported
\* twelve rows
C15_Witness ==
    /\ Executed
    /\ ~out.input.driver.description
    /\ out.input.driver.rowcount = 12
    /\ out.input.connector.type = Lit("hana")
    /\ ~out.input.connector.alive
    /\ out.res.res.ok

\* the driver raised ProgrammingError from cursor.execute in the last call
SyntaxErrorRaised ==
    /\ Queried
    /\ out.input.driver.fail = "execute"
    /\ out.input.driver.err = "ProgrammingError"
    /\ Invoked("execute") = 1
    /\ out.input.connector.type = Lit("postgres") => Healthy

\* the error that reached the caller is the query-syntax error
IsQuerySyntaxError(e) == e.class = "ValueError"
\* the error that reached the caller is the connection error
IsConnectionError(e) == e.class = "ConnectionError"

\* C16: in both SQL connectors, a malformed-syntax error of the driver makes
\* execute_query fail with the query-syntax error, not with the raw driver
\* error, and the transaction is rolled back and never committed.
C16_SyntaxErrorRelabeled ==
    SyntaxErrorRaised =>
        /\ ~out.res.res.ok
        /\ IsQuerySyntaxError(out.res.res.err)
        /\ out.res.res.err # DriverError("ProgrammingError")
        /\ Invoked("rollback") = 1
        /\ Invoked("commit") = 0

\* the classes of driver error that mean a malformed command
MalformedCommand == {"ProgrammingError", "OperationFailure", "ResponseError"}
\* the classes of driver error that mean a transport or authentication failure
TransportFailure == {"OperationalError", "ConnectionFailure", "RedisConnectionError"}

\* the class of the error the driver raised in the last call, "none" when
\* it raised nothing
DriverRaised ==
    IF Queried
    THEN IF out.input.connector.type = Lit("postgres") /\ ~Healthy
         THEN out.res.res.err.text[Len(out.res.res.err.text)]
         ELSE IF out.input.driver.fail = "none" \/ out.res.res.ok THEN "none"
         ELSE out.input.driver.err
    ELSE IF out.op \in MongoOps \cup RedisOps THEN out.input.driver
    ELSE "none"

\* C17: every operation of every connector surfaces a driver error in
\* exactly one of three ways: a malformed command as the query-syntax error,
\* a transport or authentication failure as the connection error, any other
\* driver error unchanged.
C17_ThreeBuckets ==
    DriverRaised # "none" =>
        /\ ~out.res.res.ok
        /\ DriverRaised \in MalformedCommand => IsQuerySyntaxError(out.res.res.err)
        /\ DriverRaised \in TransportFailure => IsConnectionError(out.res.res.err)
        /\ DriverRaised \notin MalformedCommand \cup TransportFailure =>
              out.res.res.err = DriverError(DriverRaised)

\* the session behind the connector was dead when the last call began
SessionWasDead == out.input.connector.attached /\ ~out.input.connector.alive

\* C18: an operation on a connector whose session has died checks the
\* session for liveness and re-establishes it before the command is
\* executed, for every stateful connection-based variant.
C18_ReconnectBeforeUse ==
    (Queried /\ SessionWasDead /\ Invoked("execute") > 0) =>
        /\ Before("isconnected", "connect")
        /\ Before("connect", "execute")

\* C19: close() is idempotent for every variant: called any number of times
\* in a row, or on a connector whose construction failed part-way, it never
\* raises and leaves the connector's resources released.
C19_CloseIdempotent ==
    out.op = "close" =>
        /\ out.res.res.ok
        /\ objects[1].attached => objects[1].closed

----------------------------------------------------------------------------
(* Lazy construction *)

\* nothing has been imported, connected or constructed
NothingBuilt ==
    /\ objects = <<>>
    /\ \A type \in Variants3 : drivers[type] # "imported"
    /\ \A id \in DbIds : connectors[id] = 0

\* caller t is inside the import-and-construct step of a call for db_id
Constructing(t, db_id) ==
    pc[t] = "construct" /\ pc'[t] # "construct" /\ arg[t] = db_id

\* caller t stores the connector its call for db_id constructed
Storing(t, db_id) ==
    /\ pc[t] = "store" /\ arg[t] = db_id
    /\ local[t].constructed
    /\ connectors'[db_id] = local[t].handle
    /\ local[t].handle \in 1..Len(objects)
    /\ objects[local[t].handle].db_id = db_id
    /\ ~objects[local[t].handle].closed

\* C20: before the first get_or_create_connector call nothing is imported,
\* connected or constructed; a driver is imported and a connector is
\* constructed only inside a get_or_create_connector call, for the type and
\* id that call resolved; and a handle enters the handle map for db_id only
\* from a get_or_create_connector(db_id) call whose construction succeeded.
C20_LazyConstruction ==
    [][/\ calls = 0 => NothingBuilt
       /\ \A type \in Variants3 :
             drivers'[type] # drivers[type] =>
                 \E t \in Callers :
                     /\ Constructing(t, arg[t])
                     /\ Get(local[t].config, "type") = type
       /\ objects' # objects =>
             \E t \in Callers :
                 /\ Constructing(t, arg[t])
                 /\ objects' = Append(objects, objects'[Len(objects')])
                 /\ objects'[Len(objects')].db_id = arg[t]
       /\ \A id \in DbIds :
             connectors'[id] # connectors[id] =>
                 \E t \in Callers : Storing(t, id)]_vars

\* one database has a handle and its driver loaded while the other
\* configured type has not been imported
C20_Witness ==
    /\ \E id \in DbIds :
          /\ connectors[id] # 0
          /\ drivers[objects[connectors[id]].type] = "imported"
    /\ \E type \in UsedTypes(doc) : drivers[type] = "installed"
    /\ AllIdle

----------------------------------------------------------------------------
(* A driver that is not installed *)

\* the type of the definition caller t resolved
ResolvedType(t) == Get(local[t].config, "type")

\* caller t completes its call in this step
Completes(t) == result'[t].done /\ result'[t] # result[t]

\* C21: when the driver of one database type is unavailable,
\* get_or_create_connector fails with the driver-unavailable error only on a
\* call for a db_id of that type; process start is unaffected, nothing is
\* cached for that db_id, and calls for db_ids of other types construct and
\* return their connectors normally.
C21_DriverUnavailable ==
    [][/\ calls = 0 => \A t \in Callers : pc[t] = "idle" /\ ~result[t].done
       /\ \A t \in Callers :
             /\ (Completes(t) /\ result'[t].err.kind = "MissingDependency") =>
                   /\ pc[t] = "construct"
                   /\ result'[t].err = MissingDependency(ResolvedType(t))
                   /\ drivers[ResolvedType(t)] = "absent"
                   /\ ~result'[t].ok
                   /\ connectors' = connectors
                   /\ connectors[arg[t]] = 0
                   /\ objects' = objects
             /\ (Constructing(t, arg[t]) /\ ResolvedType(t) \in Variants3) =>
                   IF drivers[ResolvedType(t)] = "absent"
                   THEN Completes(t) /\ result'[t].err.kind = "MissingDependency"
                   ELSE IF arg[t] \in Servers /\ reachable[arg[t]]
                   THEN /\ pc'[t] = "store"
                        /\ local'[t].constructed
                        /\ objects'[local'[t].handle].type = ResolvedType(t)
                   ELSE Completes(t) /\ result'[t].err = InitError(arg[t])
             /\ (pc[t] = "return" /\ pc'[t] # "return") =>
                   /\ result'[t].ok
                   /\ result'[t].handle = connectors[arg[t]]]_vars

\* with one driver missing, a call for a database of that type has failed,
\* nothing is cached for it, and a call for a database of another type has
\* constructed and returned its connector
C21_Witness ==
    \E t, u \in Callers :
        /\ result[t].done
        /\ result[t].err.kind = "MissingDependency"
        /\ connectors[arg[t]] = 0
        /\ Succeeded(u, arg[u])
        /\ result[u].constructed
        /\ connectors[arg[u]] = result[u].handle
        /\ \E type \in Variants3 : drivers[type] = "absent"

----------------------------------------------------------------------------
(* Uniqueness of ids *)

\* C22: in every definition set a successful load_config returns, no two
\* definitions share an id; a document that declares the same id twice is
\* not accepted.
C22_UniqueIds ==
    (out.op = "load_config" /\ out.res.ok) =>
        \A m, n \in 1..Len(out.res.value) :
            m # n => Get(out.res.value[m], "id") # Get(out.res.value[n], "id")

----------------------------------------------------------------------------
(* Pool discipline and the read / write decision *)

\* the last call was execute_query on a PostgresConnector
QueriedPostgres == Queried /\ out.input.connector.type = Lit("postgres")

\* the last driver call of the last call was `name`
EndedWith(name) ==
    /\ Len(out.res.events) > 0
    /\ out.res.events[Len(out.res.events)] = name

\* C24: PostgresConnector.execute_query returns every connection it
\* borrowed from the pool exactly once on every exit path, so that after any
\* sequence of completed calls no connection is borrowed; when getconn()
\* itself fails nothing is released.
C24_BorrowedReturnedOnce ==
    /\ objects[1].type = Lit("postgres") => objects[1].borrowed = 0
    /\ QueriedPostgres =>
          /\ Invoked("getconn") = 1
          /\ IF out.res.conn
             THEN Invoked("putconn") = 1 /\ EndedWith("putconn")
             ELSE Invoked("putconn") = 0 /\ ~out.res.res.ok

\* execute_query on a PostgresConnector has left through the operational
\* error clause with a connection borrowed, and has returned it
C24_Witness ==
    /\ QueriedPostgres
    /\ out.res.conn
    /\ ~out.res.res.ok
    /\ IsConnectionError(out.res.res.err)
    /\ Invoked("putconn") = 1

\* cursor.execute ran and did not raise in the last call
ExecutionSucceeded ==
    /\ Queried
    /\ Invoked("execute") = 1
    /\ out.input.driver.fail # "execute"
    /\ out.input.connector.type = Lit("postgres") => out.input.connector.alive

----------------------------------------------------------------------------
(* The errors of load_config *)

\* the errors load_config raises as ConfigError
ConfigErrorKinds ==
    {"ReadError", "InvalidYaml", "MissingEnvironment", "MissingId", "MissingType",
     "MissingField", "UnknownType"}

\* C26: every failure of load_config is a ConfigError, for every document
\* content: an empty document, a top level that is not a mapping and a
\* databases entry that is not a mapping included.
C26_OnlyConfigErrors ==
    (out.op = "load_config" /\ ~out.res.ok) =>
        out.res.err.kind \in ConfigErrorKinds

----------------------------------------------------------------------------
(* A load that fails *)

\* C27: a failed configuration load is not memoized: when load_config fails
\* inside get_or_create_connector the definition cache and the handle map
\* stay empty and the call raises the load's error; a later call finds the
\* cache empty and invokes load_config again, and a load that succeeds then
\* fills the cache.
C27_FailedLoadNotMemoized ==
    [][\A t \in Callers :
         /\ InvokesLoadConfig(t) =>
               IF load_config(doc, env).ok
               THEN db_configs_cache' = load_config(doc, env).value
               ELSE /\ Completes(t)
                    /\ result'[t].err = load_config(doc, env).err
                    /\ db_configs_cache = <<>> /\ db_configs_cache' = <<>>
                    /\ connectors' = connectors
                    /\ \A id \in DbIds : connectors[id] = 0
                    /\ objects' = objects
         /\ (Moves(t) /\ pc[t] = "load_db_configs" /\ db_configs_cache = <<>>) =>
               pc'[t] = "load_config"]_vars

\* a call has failed on an unset variable and, the variable exported, a
\* later call has loaded the configuration and returned its connector
C27_Witness ==
    \E t, u \in Callers :
        /\ result[u].done /\ result[u].loaded
        /\ result[u].err.kind = "MissingEnvironment"
        /\ Succeeded(t, arg[t])
        /\ result[t].loaded
        /\ db_configs_cache # <<>>

----------------------------------------------------------------------------
(* Tools called with the id of a database of another type *)

\* the tool of caller t targets another type than the one the loaded
\* definitions give the db_id of its call
Mistargeted(t) ==
    /\ pc[t] # "idle"
    /\ doc.state = "ok"
    /\ ~Undefined(doc.databases, arg[t])
    /\ tool[t] # MatchingTool(doc, arg[t])

\* C28: a tool call whose db_id names a configured database of another type
\* than the tool targets fails, constructs no connector, stores none in the
\* handle map and invokes no operation on a connector.
C28_WrongTypeRejected ==
    [][\A t \in Callers :
          (Mistargeted(t) /\ Moves(t)) =>
              /\ objects' = objects
              /\ connectors' = connectors
              /\ Completes(t) =>
                    /\ ~result'[t].ok \/ result'[t].invoked = "AttributeError"
                    /\ result'[t].invoked \in {"none", "AttributeError"}]_vars

====
